---- MODULE Spec2Model ----
(***************************************************************************)
(* State machine of the task-list screen in src/vscode/index.tsx: the      *)
(* five useState cells of App (todos, inputText, editingId, editText,      *)
(* filter), the handlers that write them, and the two projections          *)
(* getStats / getFilteredTodos.                                            *)
(*                                                                         *)
(* Texts are sequences of one-character strings so that String.trim is     *)
(* computed, not assumed.  Ids are strings, as in the source: the four     *)
(* literal ids '1'..'4' and Date.now().toString().                         *)
(*                                                                         *)
(* Every handler is one atomic action (React runs a press handler to       *)
(* completion and re-renders before the next event).  toggleTodo and       *)
(* deleteTodo are invoked with any id of the bounded universe, which       *)
(* includes every id a rendered row can pass and ids no task has;          *)
(* startEditing receives the (id, title) pair of one rendered row, the     *)
(* only values its single call site passes; the edit TextInput exists      *)
(* only while a rendered row is in edit mode.                              *)
(***************************************************************************)
EXTENDS Integers, Sequences, FiniteSets, TLC

VARIABLES todos, inputText, editingId, editText, filter, clock,
          removed, lastOp, steps

vars == <<todos, inputText, editingId, editText, filter, clock,
          removed, lastOp, steps>>

(* ---------------------------------------------------------------------- *)
(* Bounds                                                                 *)
(* ---------------------------------------------------------------------- *)

\* number of user events in one session
MaxSteps == 5

\* number of milliseconds the clock may advance during the session
MaxTicks == 1

(* ---------------------------------------------------------------------- *)
(* Values                                                                 *)
(* ---------------------------------------------------------------------- *)

\* useState(null) for editingId; never equal to any id string
NULL == "null"

Whitespace == {" ", "\t", "\n"}

\* the useState initializer of todos
InitialTodos ==
  << [id |-> "1", completed |-> FALSE,
      title |-> <<"w","a","s","h"," ","d","i","s","h","e","s">>],
     [id |-> "2", completed |-> FALSE,
      title |-> <<"e","d","i","t","-","r","e","s","u","m","e">>],
     [id |-> "3", completed |-> FALSE,
      title |-> <<"f","i","n","i","s","h"," ","C","o","d","e","d","e","x",
                  " ","c","o","u","r","s","e">>],
     [id |-> "4", completed |-> FALSE,
      title |-> <<"T","h","e","n"," ","s","l","e","e","p">>] >>

\* texts the user types into either TextInput: empty, whitespace only,
\* plain, padded with whitespace on both sides
Texts == { <<>>, <<" ", "\n">>, <<"a">>, <<" ", "b", " ">> }

Filters == {"all", "completed", "uncompleted"}

\* Date.now() is milliseconds since 1970: far above the literal ids
\* '1'..'4'.  The first clock value is the smallest integer with that
\* property.
Now0 == Len(InitialTodos) + 1

ClockValues == Now0 .. (Now0 + MaxTicks)

\* Date.now().toString()
NowId(c) == ToString(c)

Ids == { InitialTodos[i].id : i \in 1..Len(InitialTodos) }
         \cup { NowId(c) : c \in ClockValues }

(* ---------------------------------------------------------------------- *)
(* String.prototype.trim                                                  *)
(* ---------------------------------------------------------------------- *)

RECURSIVE TrimStart(_)
TrimStart(s) ==
  IF s = <<>> THEN <<>>
  ELSE IF Head(s) \in Whitespace THEN TrimStart(Tail(s)) ELSE s

RECURSIVE TrimEnd(_)
TrimEnd(s) ==
  IF s = <<>> THEN <<>>
  ELSE IF s[Len(s)] \in Whitespace THEN TrimEnd(SubSeq(s, 1, Len(s) - 1))
       ELSE s

\* variant: the emptiness checks look at the raw text
TrimNothing(s) == s

Trim(s) == TrimEnd(TrimStart(s))

(* ---------------------------------------------------------------------- *)
(* Projections                                                            *)
(* ---------------------------------------------------------------------- *)

IsCompleted(t) == t.completed

IsUncompleted(t) == ~t.completed

\* variant: the completed counter counts the tasks that are not completed
getStatsCountsPending ==
  LET total == Len(todos)
      completed == Len(SelectSeq(todos, IsUncompleted))
  IN  [total |-> total, completed |-> completed,
       uncompleted |-> total - completed]

getStats ==
  LET total == Len(todos)
      completed == Len(SelectSeq(todos, IsCompleted))
  IN  [total |-> total, completed |-> completed,
       uncompleted |-> total - completed]

\* variant: the 'uncompleted' case is missing and falls to the default
FilteredByNoUncompleted(f) ==
  CASE f = "completed"   -> SelectSeq(todos, IsCompleted)
    [] OTHER             -> todos

FilteredBy(f) ==
  CASE f = "completed"   -> SelectSeq(todos, IsCompleted)
    [] f = "uncompleted" -> SelectSeq(todos, IsUncompleted)
    [] OTHER             -> todos

getFilteredTodos == FilteredBy(filter)

(* ---------------------------------------------------------------------- *)
(* Initial state                                                          *)
(* ---------------------------------------------------------------------- *)

Init ==
  /\ todos = InitialTodos
  /\ inputText = <<>>
  /\ editingId = NULL
  /\ editText = <<>>
  /\ filter = "all"
  /\ clock = Now0
  /\ removed = {}
  /\ lastOp = [op |-> "init", arg |-> NULL, editing |-> NULL]
  /\ steps = 0

\* one user event: bounded session length, and the record of what ran,
\* with its argument and the editingId it found
Event(op, arg) ==
  /\ steps < MaxSteps
  /\ steps' = steps + 1
  /\ lastOp' = [op |-> op, arg |-> arg, editing |-> editingId]

(* ---------------------------------------------------------------------- *)
(* Handlers                                                               *)
(* ---------------------------------------------------------------------- *)

\* onChangeText={setInputText}
SetInputText(text) ==
  /\ Event("setInputText", NULL)
  /\ inputText' = text
  /\ UNCHANGED <<todos, editingId, editText, filter, clock, removed>>

\* variant: the new task goes to the end of the list
addTodoAppends ==
  /\ Event("addTodo", NULL)
  /\ IF Len(Trim(inputText)) = 0
       THEN UNCHANGED <<todos, inputText>>
       ELSE /\ todos' = todos \o <<[id |-> NowId(clock), title |-> inputText,
                                    completed |-> FALSE]>>
            /\ inputText' = <<>>
  /\ UNCHANGED <<editingId, editText, filter, clock, removed>>

\* variant: only the empty text is rejected
addTodoChecksLength ==
  /\ Event("addTodo", NULL)
  /\ IF Len(inputText) = 0
       THEN UNCHANGED <<todos, inputText>>
       ELSE /\ todos' = <<[id |-> NowId(clock), title |-> inputText,
                           completed |-> FALSE]>> \o todos
            /\ inputText' = <<>>
  /\ UNCHANGED <<editingId, editText, filter, clock, removed>>

addTodo ==
  /\ Event("addTodo", NULL)
  /\ IF Len(Trim(inputText)) = 0
       THEN UNCHANGED <<todos, inputText>>
       ELSE /\ todos' = <<[id |-> NowId(clock), title |-> inputText,
                           completed |-> FALSE]>> \o todos
            /\ inputText' = <<>>
  /\ UNCHANGED <<editingId, editText, filter, clock, removed>>

\* variant: the matching task is marked completed instead of flipped
toggleUpdaterSetsTrue(prevTodos, id) ==
  [i \in 1..Len(prevTodos) |->
     IF prevTodos[i].id = id
       THEN [prevTodos[i] EXCEPT !.completed = TRUE]
       ELSE prevTodos[i]]

\* the updater toggleTodo passes to setTodos
toggleUpdater(prevTodos, id) ==
  [i \in 1..Len(prevTodos) |->
     IF prevTodos[i].id = id
       THEN [prevTodos[i] EXCEPT !.completed = ~prevTodos[i].completed]
       ELSE prevTodos[i]]

toggleTodo(id) ==
  /\ Event("toggleTodo", id)
  /\ todos' = toggleUpdater(todos, id)
  /\ UNCHANGED <<inputText, editingId, editText, filter, clock, removed>>

\* the updater deleteTodo passes to setTodos
deleteUpdater(prevTodos, id) ==
  SelectSeq(prevTodos, LAMBDA todo : todo.id # id)

\* history: the ids of the tasks deleteTodo(id) takes out of todos
Removing(id) == { todos[i].id : i \in { j \in 1..Len(todos) : todos[j].id = id } }

\* variant: the edit state is left alone
deleteTodoKeepsEditState(id) ==
  /\ Event("deleteTodo", id)
  /\ todos' = deleteUpdater(todos, id)
  /\ removed' = removed \cup Removing(id)
  /\ UNCHANGED <<editingId, editText, inputText, filter, clock>>

\* variant: the edit state is cleared whatever task is deleted
deleteTodoAlwaysClears(id) ==
  /\ Event("deleteTodo", id)
  /\ todos' = deleteUpdater(todos, id)
  /\ editingId' = NULL
  /\ editText' = <<>>
  /\ removed' = removed \cup Removing(id)
  /\ UNCHANGED <<inputText, filter, clock>>

deleteTodo(id) ==
  /\ Event("deleteTodo", id)
  /\ todos' = deleteUpdater(todos, id)
  /\ IF editingId = id
       THEN editingId' = NULL /\ editText' = <<>>
       ELSE UNCHANGED <<editingId, editText>>
  /\ removed' = removed \cup Removing(id)
  /\ UNCHANGED <<inputText, filter, clock>>

startEditing(id, title) ==
  /\ Event("startEditing", id)
  /\ editingId' = id
  /\ editText' = title
  /\ UNCHANGED <<todos, inputText, filter, clock, removed>>

\* TodoItem: the row of item shows the edit form instead of the buttons
InEditMode(item) == editingId = item.id

\* the Edit button of a rendered row that is not in edit mode
PressEdit ==
  \E i \in 1..Len(getFilteredTodos) :
    LET item == getFilteredTodos[i]
    IN  /\ ~InEditMode(item)
        /\ startEditing(item.id, item.title)

\* onChangeText={setEditText} of the edit form of a rendered row
SetEditText(text) ==
  /\ \E i \in 1..Len(getFilteredTodos) : InEditMode(getFilteredTodos[i])
  /\ Event("setEditText", NULL)
  /\ editText' = text
  /\ UNCHANGED <<todos, inputText, editingId, filter, clock, removed>>

\* variant: the draft is saved without the emptiness check
saveEditUnchecked ==
  /\ Event("saveEdit", NULL)
  /\ todos' = [i \in 1..Len(todos) |->
                 IF todos[i].id = editingId
                   THEN [todos[i] EXCEPT !.title = editText]
                   ELSE todos[i]]
  /\ editingId' = NULL
  /\ editText' = <<>>
  /\ UNCHANGED <<inputText, filter, clock, removed>>

\* variant: the trimmed draft is stored
saveEditTrims ==
  /\ Event("saveEdit", NULL)
  /\ IF Len(Trim(editText)) = 0
       THEN UNCHANGED <<todos, editingId, editText>>
       ELSE /\ todos' = [i \in 1..Len(todos) |->
                           IF todos[i].id = editingId
                             THEN [todos[i] EXCEPT !.title = Trim(editText)]
                             ELSE todos[i]]
            /\ editingId' = NULL
            /\ editText' = <<>>
  /\ UNCHANGED <<inputText, filter, clock, removed>>

saveEdit ==
  /\ Event("saveEdit", NULL)
  /\ IF Len(Trim(editText)) = 0
       THEN UNCHANGED <<todos, editingId, editText>>
       ELSE /\ todos' = [i \in 1..Len(todos) |->
                           IF todos[i].id = editingId
                             THEN [todos[i] EXCEPT !.title = editText]
                             ELSE todos[i]]
            /\ editingId' = NULL
            /\ editText' = <<>>
  /\ UNCHANGED <<inputText, filter, clock, removed>>

\* variant: the draft survives the cancel
cancelEditKeepsText ==
  /\ Event("cancelEdit", NULL)
  /\ editingId' = NULL
  /\ UNCHANGED <<editText, todos, inputText, filter, clock, removed>>

cancelEdit ==
  /\ Event("cancelEdit", NULL)
  /\ editingId' = NULL
  /\ editText' = <<>>
  /\ UNCHANGED <<todos, inputText, filter, clock, removed>>

\* onPress={() => setFilter(f)}
SetFilter(f) ==
  /\ Event("setFilter", NULL)
  /\ filter' = f
  /\ UNCHANGED <<todos, inputText, editingId, editText, clock, removed>>

\* a millisecond passes between two events
Tick ==
  /\ clock < Now0 + MaxTicks
  /\ clock' = clock + 1
  /\ UNCHANGED <<todos, inputText, editingId, editText, filter, removed,
                 lastOp, steps>>

Next ==
  \/ \E text \in Texts : SetInputText(text)
  \/ addTodo
  \/ \E id \in Ids : toggleTodo(id)
  \/ \E id \in Ids : deleteTodo(id)
  \/ PressEdit
  \/ \E text \in Texts : SetEditText(text)
  \/ saveEdit
  \/ cancelEdit
  \/ \E f \in Filters : SetFilter(f)
  \/ Tick

Spec == Init /\ [][Next]_vars

(* ---------------------------------------------------------------------- *)
(* Properties                                                             *)
(* ---------------------------------------------------------------------- *)

\* a text with nothing but whitespace in it (the empty text included)
IsBlank(s) == \A i \in 1..Len(s) : s[i] \in Whitespace

Positions == 1..Len(todos)

HasId(id) == \E i \in Positions : todos[i].id = id

\* C1: no two tasks of todos have the same id, in every reachable state.
C1_UniqueIds ==
  \A i, j \in Positions : i # j => todos[i].id # todos[j].id

\* C2: whenever editingId is set, some task of todos has that id.
C2_EditingTaskExists == editingId # NULL => HasId(editingId)

\* deleteTodo has just removed a task while another one is being edited,
\* or has just removed the task that was being edited
C2_Witness ==
  /\ lastOp.op = "deleteTodo"
  /\ lastOp.arg \in removed
  /\ \/ editingId # NULL /\ editingId = lastOp.editing
     \/ editingId = NULL /\ lastOp.editing = lastOp.arg

\* C3: every stored title has a character that is not whitespace.
C3_TitlesNotBlank == \A i \in Positions : ~IsBlank(todos[i].title)

\* addTodo or saveEdit has stored the padded text
C3_Witness ==
  /\ lastOp.op \in {"addTodo", "saveEdit"}
  /\ \E i \in Positions : todos[i].title = <<" ", "b", " ">>

\* a user event named op has just run
Did(op) == lastOp'.op = op /\ steps' = steps + 1

\* C4: addTodo with a text that is not blank makes the list one longer,
\* puts a task with that very text (untrimmed) and completed = FALSE at
\* position 1, first under filter all, keeps the old tasks in order behind
\* it, and clears inputText.
C4_AddPrepends ==
  [][ (Did("addTodo") /\ ~IsBlank(inputText)) =>
        /\ getStats'.total = getStats.total + 1
        /\ todos'[1].title = inputText
        /\ todos'[1].completed = FALSE
        /\ FilteredBy("all")'[1] = todos'[1]
        /\ \A i \in Positions : todos'[i + 1] = todos[i]
        /\ inputText' = <<>> ]_vars

\* addTodo has just stored the padded text at the head of the list
C4_Witness ==
  /\ lastOp.op = "addTodo"
  /\ Len(todos) = Len(InitialTodos) + 1
  /\ todos[1].title = <<" ", "b", " ">>
  /\ ~todos[1].completed
  /\ inputText = <<>>

\* C5: addTodo with a blank text changes nothing.
C5_AddBlankNoOp ==
  [][ (Did("addTodo") /\ IsBlank(inputText)) =>
        UNCHANGED <<todos, inputText, editingId, editText, filter>> ]_vars

\* addTodo has just run on a whitespace-only text
C5_Witness ==
  /\ lastOp.op = "addTodo"
  /\ inputText = <<" ", "\n">>
  /\ todos = InitialTodos

\* C6: toggleTodo(id) flips completed in the tasks with that id and leaves
\* every id, every title, every other task and the order alone; with no
\* such task the list is unchanged; a second toggleTodo(id) gives back the
\* list the first one started from.
C6_ToggleInvolution ==
  [][ Did("toggleTodo") =>
        LET id == lastOp'.arg
        IN  /\ Len(todos') = Len(todos)
            /\ \A i \in Positions :
                 /\ todos'[i].id = todos[i].id
                 /\ todos'[i].title = todos[i].title
                 /\ todos'[i].completed = (todos[i].completed # (todos[i].id = id))
            /\ (~HasId(id) => todos' = todos)
            /\ toggleUpdater(todos', id) = todos ]_vars

\* toggleTodo has just run a second time in a row on the first task
C6_Witness ==
  /\ lastOp.op = "toggleTodo"
  /\ lastOp.arg = InitialTodos[1].id
  /\ steps = 2
  /\ todos = InitialTodos

\* C7: an id that deleteTodo has removed is never again the id of a task
\* shown under any filter.
C7_RemovedIdNeverVisible ==
  \A f \in Filters :
    \A i \in 1..Len(FilteredBy(f)) : FilteredBy(f)[i].id \notin removed

\* C8: saveEdit on a blank editText while a task is being edited changes
\* neither todos nor editingId nor editText.
C8_BlankCommitNoOp ==
  [][ (Did("saveEdit") /\ editingId # NULL /\ IsBlank(editText)) =>
        /\ UNCHANGED <<todos, editingId, editText>>
        /\ HasId(editingId') ]_vars

\* saveEdit has just run on an emptied edit field
C8_Witness ==
  /\ lastOp.op = "saveEdit"
  /\ editingId # NULL
  /\ HasId(editingId)
  /\ IsBlank(editText)

\* the positions deleteTodo(id) keeps
Kept(id) == { i \in Positions : todos[i].id # id }

\* C9: deleteTodo(id) keeps exactly the tasks with another id, unchanged
\* and in their order; it clears editingId and editText when editingId = id
\* and leaves them alone otherwise; with no task of that id nothing
\* changes.
C9_DeleteFrame ==
  [][ Did("deleteTodo") =>
        LET id == lastOp'.arg
        IN  /\ Len(todos') = Cardinality(Kept(id))
            /\ \A i \in Kept(id) :
                 todos'[Cardinality({ j \in Kept(id) : j <= i })] = todos[i]
            /\ IF editingId = id
                 THEN editingId' = NULL /\ editText' = <<>>
                 ELSE UNCHANGED <<editingId, editText>>
            /\ UNCHANGED <<inputText, filter>>
            /\ (~HasId(id) =>
                  UNCHANGED <<todos, inputText, editingId, editText, filter>>)
      ]_vars

\* deleteTodo has just removed the task that was being edited
C9_Witness ==
  /\ lastOp.op = "deleteTodo"
  /\ lastOp.editing = lastOp.arg
  /\ lastOp.arg \in removed
  /\ ~HasId(lastOp.arg)
  /\ editingId = NULL
  /\ editText = <<>>

\* C10: the three counters are the number of tasks, of tasks with
\* completed = TRUE and of tasks with completed = FALSE, and the last two
\* add up to the first.
C10_CountersAddUp ==
  /\ getStats.total = Len(todos)
  /\ getStats.completed = Cardinality({ i \in Positions : todos[i].completed = TRUE })
  /\ getStats.uncompleted = Cardinality({ i \in Positions : todos[i].completed = FALSE })
  /\ getStats.completed + getStats.uncompleted = getStats.total

\* toggleTodo has just left the list with tasks of both kinds
C10_Witness ==
  /\ lastOp.op = "toggleTodo"
  /\ getStats.completed > 0
  /\ getStats.uncompleted > 0

\* the positions of todos that filter f selects
Selected(f) ==
  { i \in Positions :
      \/ f = "all"
      \/ f = "completed" /\ todos[i].completed = TRUE
      \/ f = "uncompleted" /\ todos[i].completed = FALSE }

\* the list shown is the selected tasks, each at its rank among them
ShowsSelected ==
  /\ Len(getFilteredTodos) = Cardinality(Selected(filter))
  /\ \A i \in Selected(filter) :
       getFilteredTodos[Cardinality({ j \in Selected(filter) : j <= i })] = todos[i]

\* C11: in every state the list shown is exactly the tasks the filter
\* selects (all, the completed ones, the not completed ones), in the order
\* of todos; and a setFilter step changes nothing but filter.
C11_FilterProjection ==
  /\ []ShowsSelected
  /\ [][ Did("setFilter") =>
           UNCHANGED <<todos, inputText, editingId, editText>> ]_vars

\* setFilter has just selected a filter that shows some tasks and hides
\* others
C11_Witness ==
  /\ lastOp.op = "setFilter"
  /\ filter \in {"completed", "uncompleted"}
  /\ Len(getFilteredTodos) > 0
  /\ Len(getFilteredTodos) < Len(todos)

\* C12: saveEdit with editingId set and an editText that is not blank
\* gives the tasks with that id the title editText, character for
\* character, and clears editingId and editText; ids, completed flags,
\* positions, the other tasks, the length of the list and the filter stay
\* as they were.
C12_CommitFrame ==
  [][ (Did("saveEdit") /\ editingId # NULL /\ ~IsBlank(editText)) =>
        /\ Len(todos') = Len(todos)
        /\ \A i \in Positions :
             /\ todos'[i].id = todos[i].id
             /\ todos'[i].completed = todos[i].completed
             /\ todos[i].id = editingId => todos'[i].title = editText
             /\ todos[i].id # editingId => todos'[i].title = todos[i].title
        /\ editingId' = NULL
        /\ editText' = <<>>
        /\ UNCHANGED filter ]_vars

\* saveEdit has just stored the padded draft in the task that was being
\* edited
C12_Witness ==
  /\ lastOp.op = "saveEdit"
  /\ lastOp.editing # NULL
  /\ editingId = NULL
  /\ editText = <<>>
  /\ \E i \in Positions :
       todos[i].id = lastOp.editing /\ todos[i].title = <<" ", "b", " ">>

\* C13: saveEdit while editingId is unset changes none of todos,
\* editingId, editText, inputText and filter.
C13_CommitWithoutEditNoOp ==
  [][ (Did("saveEdit") /\ editingId = NULL) =>
        UNCHANGED <<todos, editingId, editText, inputText, filter>> ]_vars

\* saveEdit has just run with no task in edit mode, in a session in which
\* a task has been deleted
C13_Witness ==
  /\ lastOp.op = "saveEdit"
  /\ lastOp.editing = NULL
  /\ editingId = NULL
  /\ editText = <<>>
  /\ removed # {}

====
